---- MODULE Spec2Model ----
(***************************************************************************)
(* Model of scripts/data_processing.py: the cleaning, normalization and    *)
(* feature-derivation functions that mutate one ticker -> table mapping.   *)
(*                                                                         *)
(* Numbers.  A float64 is modelled as an exact extended rational <<n, d>>: *)
(*   d > 0   the rational n/d in lowest terms                              *)
(*   <<0,0>> NaN        <<1,0>> +inf        <<-1,0>> -inf                  *)
(* The arithmetic follows IEEE-754 for NaN and the infinities (x/0, 0/0,   *)
(* inf-inf, 0*inf); rounding is not modelled.                              *)
(*                                                                         *)
(* Square roots.  scipy's zscore and pandas' rolling std divide by / take  *)
(* a square root.  The Z-Score column holds sign(z) * z^2 and the Rolling  *)
(* Std column holds std^2; |z| > thr is decided as z^2 > thr^2.  Both      *)
(* encodings are strictly monotone and keep NaN where the code has NaN.    *)
(***************************************************************************)
EXTENDS Integers, Sequences, FiniteSets, TLC

VARIABLES data_frames, prev, out, err, normalized, steps

vars == <<data_frames, prev, out, err, normalized, steps>>

(***************************************************************************)
(* Bounds of the model                                                     *)
(***************************************************************************)
MaxLen == 3

MaxSteps == 2

MaxLong == 21

(***************************************************************************)
(* Program constants                                                       *)
(***************************************************************************)
DefaultWindow == 30

AllInOneWindow == 20

DefaultZThreshold == 3

DefaultReturnThreshold == 2

Percent == 100

TickerList == <<"TSLA", "BND">>

Tickers == {TickerList[i] : i \in 1..Len(TickerList)}

NumCols == {"Close", "Open", "High", "Low", "Volume"}

DerivedCols == {"DailyReturn", "RollingMean", "RollingStd", "ZScore"}

Methods == {"ffill", "bfill", "interpolate", "drop"}

(***************************************************************************)
(* float64 arithmetic on extended rationals                                *)
(***************************************************************************)
NaN == <<0, 0>>

PosInf == <<1, 0>>

NegInf == <<-1, 0>>

Zero == <<0, 1>>

One == <<1, 1>>

R(n) == <<n, 1>>

AbsInt(n) == IF n < 0 THEN -n ELSE n

SgnInt(n) == IF n < 0 THEN -1 ELSE IF n > 0 THEN 1 ELSE 0

RECURSIVE GCD(_, _)
GCD(a, b) == IF b = 0 THEN a ELSE GCD(b, a % b)

Norm(n, d) ==
    IF d = 0 THEN <<SgnInt(n), 0>>
    ELSE LET g == GCD(AbsInt(n), AbsInt(d))
             s == IF d < 0 THEN -1 ELSE 1
         IN  <<s * (n \div g), s * (d \div g)>>

Frac(n, d) == Norm(n, d)

IsNaN(a) == a = NaN

IsInf(a) == a[2] = 0 /\ a[1] # 0

IsFinite(a) == a[2] > 0

Neg(a) == <<-a[1], a[2]>>

Abs(a) == <<AbsInt(a[1]), a[2]>>

Add(a, b) ==
    IF IsNaN(a) \/ IsNaN(b) THEN NaN
    ELSE IF IsInf(a) THEN (IF IsInf(b) /\ b # a THEN NaN ELSE a)
    ELSE IF IsInf(b) THEN b
    ELSE IF a[2] = 1 /\ b[2] = 1 THEN <<a[1] + b[1], 1>>
    ELSE LET g == GCD(a[2], b[2])
         IN  Norm(a[1] * (b[2] \div g) + b[1] * (a[2] \div g), (a[2] \div g) * b[2])

Sub(a, b) == Add(a, Neg(b))

Mul(a, b) ==
    IF IsNaN(a) \/ IsNaN(b) THEN NaN
    ELSE IF IsInf(a) \/ IsInf(b)
         THEN <<SgnInt(a[1]) * SgnInt(b[1]), 0>>
    ELSE IF a[2] = 1 /\ b[2] = 1 THEN <<a[1] * b[1], 1>>
    ELSE LET g1 == GCD(AbsInt(a[1]), b[2])
             g2 == GCD(AbsInt(b[1]), a[2])
         IN  Norm((a[1] \div g1) * (b[1] \div g2), (a[2] \div g2) * (b[2] \div g1))

Div(a, b) ==
    IF IsNaN(a) \/ IsNaN(b) THEN NaN
    ELSE IF IsInf(b) THEN (IF IsInf(a) THEN NaN ELSE Zero)
    ELSE IF IsInf(a) THEN <<a[1] * (IF b[1] < 0 THEN -1 ELSE 1), 0>>
    ELSE IF b[1] = 0 THEN <<SgnInt(a[1]), 0>>
    ELSE Mul(a, Norm(b[2], b[1]))

Lt(a, b) ==
    IF IsNaN(a) \/ IsNaN(b) THEN FALSE
    ELSE IF IsInf(a) THEN a = NegInf /\ b # NegInf
    ELSE IF IsInf(b) THEN b = PosInf
    ELSE Add(a, Neg(b))[1] < 0

Gt(a, b) == Lt(b, a)

Le(a, b) == Lt(a, b) \/ (~IsNaN(a) /\ a = b)

FMin(a, b) == IF IsNaN(a) \/ IsNaN(b) THEN NaN ELSE IF Lt(b, a) THEN b ELSE a

FMax(a, b) == IF IsNaN(a) \/ IsNaN(b) THEN NaN ELSE IF Lt(a, b) THEN b ELSE a

(* Tuple(s) = s and Fn(f) = f: they make TLC evaluate a sequence or a      *)
(* function once, where it is built, instead of at every later access.     *)
Tuple(s) == s \o <<>>

Fn(f) == f @@ <<>>

RECURSIVE SumSeq(_)
SumSeq(s) == IF s = <<>> THEN Zero ELSE Add(Head(s), SumSeq(Tail(s)))

(***************************************************************************)
(* Tables: a DataFrame is [rows, cols]; rows is the sequence of its rows   *)
(* in positional order, idx the pandas index label of a row, cols the set  *)
(* of derived columns the frame currently has.  A derived column that is   *)
(* absent holds NaN in every row and is ignored by every operator.         *)
(***************************************************************************)
MkRow(i, q) ==
    [idx |-> i - 1, Date |-> i,
     Close |-> q[1], Open |-> q[2], High |-> q[3], Low |-> q[4], Volume |-> q[5],
     DailyReturn |-> NaN, RollingMean |-> NaN, RollingStd |-> NaN, ZScore |-> NaN]

separate_data(quotes) ==
    [rows |-> Tuple([i \in 1..Len(quotes) |-> MkRow(i, quotes[i])]), cols |-> {}]

NRows(tbl) == Len(tbl.rows)

Col(tbl, c) == Tuple([i \in 1..NRows(tbl) |-> tbl.rows[i][c]])

Columns(tbl) == NumCols \cup tbl.cols

SetCol(tbl, c, s) ==
    [rows |-> Tuple([i \in 1..NRows(tbl) |-> [tbl.rows[i] EXCEPT ![c] = s[i]]]),
     cols |-> IF c \in DerivedCols THEN tbl.cols \cup {c} ELSE tbl.cols]

(***************************************************************************)
(* pandas: DataFrame.dropna(), DataFrame.fillna(method=...)                *)
(***************************************************************************)
RowHasNA(tbl, r) == \E c \in Columns(tbl) : IsNaN(r[c])

dropna(tbl) ==
    LET Keep(r) == ~RowHasNA(tbl, r)
    IN  [rows |-> SelectSeq(tbl.rows, Keep), cols |-> tbl.cols]

Pad_mut(s) ==
    Tuple([i \in 1..Len(s) |-> IF IsNaN(s[i]) /\ i > 1 THEN s[i - 1] ELSE s[i]])

Pad(s) ==
    LET f[i \in 0..Len(s)] ==
            IF i = 0 THEN NaN ELSE IF IsNaN(s[i]) THEN f[i - 1] ELSE s[i]
    IN  Tuple([i \in 1..Len(s) |-> f[i]])

Backfill(s) ==
    LET n == Len(s)
        f[i \in 1..(n + 1)] ==
            IF i = n + 1 THEN NaN ELSE IF IsNaN(s[i]) THEN f[i + 1] ELSE s[i]
    IN  Tuple([i \in 1..n |-> f[i]])

FillSeq(s, method) == IF method = "ffill" THEN Pad(s) ELSE Backfill(s)

ValidFillMethod(method) == method \in {"ffill", "bfill", "pad", "backfill"}

fillna(tbl, method) ==
    LET filled == Fn([c \in Columns(tbl) |-> FillSeq(Col(tbl, c), method)])
    IN  [rows |-> Tuple([i \in 1..NRows(tbl) |->
                      Fn([c \in DOMAIN tbl.rows[i] |->
                             IF c \in Columns(tbl) THEN filled[c][i]
                             ELSE tbl.rows[i][c]])]),
         cols |-> tbl.cols]

(***************************************************************************)
(* sklearn: MinMaxScaler (feature_range = (0, 1)), one object per call of  *)
(* normalize_data, fit_transform once per ticker                           *)
(***************************************************************************)
RECURSIVE NanMin(_)
NanMin(s) ==
    IF s = <<>> THEN NaN
    ELSE LET m == NanMin(Tail(s))
         IN  IF IsNaN(Head(s)) THEN m
             ELSE IF IsNaN(m) THEN Head(s) ELSE FMin(Head(s), m)

RECURSIVE NanMax(_)
NanMax(s) ==
    IF s = <<>> THEN NaN
    ELSE LET m == NanMax(Tail(s))
         IN  IF IsNaN(Head(s)) THEN m
             ELSE IF IsNaN(m) THEN Head(s) ELSE FMax(Head(s), m)

MinMaxScaler ==
    [fitted |-> FALSE,
     data_min |-> Fn([c \in NumCols |-> NaN]), data_max |-> Fn([c \in NumCols |-> NaN]),
     scale |-> Fn([c \in NumCols |-> NaN]), min |-> Fn([c \in NumCols |-> NaN])]

Reset_mut(scaler) == scaler

Reset(scaler) == MinMaxScaler

HandleZerosInScale_mut(range) == range

HandleZerosInScale(range) == IF range = Zero THEN One ELSE range

PartialFit(scaler, tbl) ==
    LET dmin == Fn([c \in NumCols |->
                       IF scaler.fitted
                       THEN FMin(scaler.data_min[c], NanMin(Col(tbl, c)))
                       ELSE NanMin(Col(tbl, c))])
        dmax == Fn([c \in NumCols |->
                       IF scaler.fitted
                       THEN FMax(scaler.data_max[c], NanMax(Col(tbl, c)))
                       ELSE NanMax(Col(tbl, c))])
        scl  == Fn([c \in NumCols |->
                       Div(One, HandleZerosInScale(Sub(dmax[c], dmin[c])))])
    IN  [fitted |-> TRUE, data_min |-> dmin, data_max |-> dmax, scale |-> scl,
         min |-> Fn([c \in NumCols |-> Sub(Zero, Mul(dmin[c], scl[c]))])]

Fit(scaler, tbl) == PartialFit(Reset(scaler), tbl)

Transform(scaler, tbl) ==
    [rows |-> Tuple([i \in 1..NRows(tbl) |->
                  Fn([c \in DOMAIN tbl.rows[i] |->
                         IF c \in NumCols
                         THEN Add(Mul(tbl.rows[i][c], scaler.scale[c]), scaler.min[c])
                         ELSE tbl.rows[i][c]])]),
     cols |-> tbl.cols]

CheckArrayFails(tbl) ==
    \/ NRows(tbl) = 0
    \/ \E i \in 1..NRows(tbl) : \E c \in NumCols : IsInf(tbl.rows[i][c])

RECURSIVE NormalizeLoop(_, _, _)
NormalizeLoop(dfs, k, scaler) ==
    IF k > Len(TickerList) THEN [dfs |-> dfs, err |-> "none", done |-> k - 1]
    ELSE LET t == TickerList[k]
         IN  IF CheckArrayFails(dfs[t])
             THEN [dfs |-> dfs, err |-> "ValueError", done |-> k - 1]
             ELSE LET fitted == Fit(scaler, dfs[t])
                  IN  NormalizeLoop([dfs EXCEPT ![t] = Transform(fitted, dfs[t])],
                                    k + 1, fitted)

(***************************************************************************)
(* pandas: Series.pct_change() (fill_method = 'pad'), Series.rolling();    *)
(* scipy: zscore (ddof = 0, nan_policy = 'propagate')                      *)
(***************************************************************************)
pct_change(s) ==
    LET f == Pad(s)
    IN  Tuple([i \in 1..Len(s) |-> IF i = 1 THEN NaN ELSE Sub(Div(f[i], f[i - 1]), One)])

Scaled(s, k) == Tuple([i \in 1..Len(s) |-> Mul(s[i], R(k))])

Window(s, i, w) == SubSeq(s, i - w + 1, i)

HasNaN(s) == \E i \in 1..Len(s) : IsNaN(s[i])

Mean(s) == Div(SumSeq(s), R(Len(s)))

SumSqDev(s) ==
    LET m == Mean(s)
    IN  SumSeq(Tuple([i \in 1..Len(s) |-> Mul(Sub(s[i], m), Sub(s[i], m))]))

rolling_mean(s, w) ==
    Tuple([i \in 1..Len(s) |->
              IF i < w \/ HasNaN(Window(s, i, w)) THEN NaN ELSE Mean(Window(s, i, w))])

rolling_std(s, w) ==
    Tuple([i \in 1..Len(s) |->
              IF i < w \/ HasNaN(Window(s, i, w)) THEN NaN
              ELSE Div(SumSqDev(Window(s, i, w)), R(w - 1))])

zscore_mut(s) ==
    LET m   == Mean(s)
        var == Div(SumSqDev(s), R(Len(s) - 1))
    IN  Tuple([i \in 1..Len(s) |->
                  LET d  == Sub(s[i], m)
                      z2 == Div(Mul(d, d), var)
                  IN  IF Lt(d, Zero) THEN Neg(z2) ELSE z2])

zscore(s) ==
    LET m   == Mean(s)
        var == Div(SumSqDev(s), R(Len(s)))
    IN  Tuple([i \in 1..Len(s) |->
                  LET d  == Sub(s[i], m)
                      z2 == Div(Mul(d, d), var)
                  IN  IF Lt(d, Zero) THEN Neg(z2) ELSE z2])

Flagged(s, lo, hi) == {i \in 1..Len(s) : Gt(s[i], hi) \/ Lt(s[i], lo)}

NoRows == [t \in Tickers |-> {}]

(***************************************************************************)
(* Initial states: the mapping built by separate_data from a download.     *)
(* One ticker carries a series of up to MaxLen trading days, any subset of *)
(* which has no quote at all (day 2 never has a volume); the other ticker  *)
(* carries a fixed series.  The long series hold one spike of 1000 among   *)
(* closes of 100.                                                          *)
(***************************************************************************)
Quote(c, o, h, l, v) == <<R(c), R(o), R(h), R(l), R(v)>>

NoQuote == <<NaN, NaN, NaN, NaN, NaN>>

NoVolume(c, o, h, l) == <<R(c), R(o), R(h), R(l), NaN>>

Traded(i) ==
    IF i = 2 THEN NoVolume(10 * i, 5, 60, 10 - i)
    ELSE Quote(10 * i, 5, IF i % 2 = 1 THEN 50 ELSE 60, 10 - i, 100 * i)

ShortSeries ==
    {[i \in 1..n |-> IF i \in gaps THEN NoQuote ELSE Traded(i)] :
        <<n, gaps>> \in UNION {{n} \X SUBSET (1..n) : n \in 1..MaxLen}}

OtherSeries ==
    {<<Quote(100, 101, 111, 99, 7), Quote(110, 101, 112, 98, 7), Quote(99, 101, 113, 97, 7)>>}

Spike(n, k) ==
    [i \in 1..n |-> IF i = k THEN Quote(1000, 100, 1000, 100, 50)
                    ELSE Quote(100, 100, 100, 100, 50)]

LongSeries == {Spike(n, (n + 1) \div 2) : n \in 1..MaxLong}

Started(dfs) ==
    /\ data_frames = dfs
    /\ prev = dfs
    /\ out = [op |-> "separate_data", method |-> "", num |-> 0, rows |-> NoRows]
    /\ err = "none"
    /\ normalized = [t \in Tickers |-> FALSE]
    /\ steps = 0

Init ==
    \E p \in Tickers : \E q \in ShortSeries : \E s \in OtherSeries :
        Started([t \in Tickers |-> IF t = p THEN separate_data(q) ELSE separate_data(s)])

InitLong ==
    \E q \in LongSeries :
        Started([t \in Tickers |->
                    IF t = TickerList[1] THEN separate_data(q)
                    ELSE separate_data(<<Quote(100, 101, 111, 99, 7), NoQuote,
                                         Quote(110, 101, 112, 98, 7),
                                         Quote(120, 101, 121, 97, 7)>>)])

(***************************************************************************)
(* Operations                                                              *)
(***************************************************************************)
Running == err = "none" /\ steps < MaxSteps

Done(op, method, num, rows) ==
    /\ steps' = steps + 1
    /\ prev' = data_frames
    /\ out' = [op |-> op, method |-> method, num |-> num, rows |-> rows]

handle_missing_values(method) ==
    /\ Running
    /\ IF method = "drop"
       THEN /\ data_frames' = [t \in Tickers |-> dropna(data_frames[t])]
            /\ err' = "none"
       ELSE IF ValidFillMethod(method)
       THEN /\ data_frames' = [t \in Tickers |-> fillna(data_frames[t], method)]
            /\ err' = "none"
       ELSE /\ data_frames' = data_frames
            /\ err' = "ValueError"
    /\ Done("handle_missing_values", method, 0, NoRows)
    /\ UNCHANGED normalized

normalize_data ==
    /\ Running
    /\ LET res == NormalizeLoop(data_frames, 1, MinMaxScaler)
       IN  /\ data_frames' = res.dfs
           /\ err' = res.err
           /\ normalized' = [t \in Tickers |->
                                normalized[t]
                                \/ \E k \in 1..res.done : TickerList[k] = t]
    /\ Done("normalize_data", "", 0, NoRows)

calculate_daily_returns ==
    /\ Running
    /\ data_frames' = [t \in Tickers |->
          SetCol(data_frames[t], "DailyReturn",
                 Scaled(pct_change(Col(data_frames[t], "Close")), Percent))]
    /\ Done("calculate_daily_returns", "", 0, NoRows)
    /\ UNCHANGED <<err, normalized>>

analyze_volatility(window) ==
    /\ Running
    /\ data_frames' = [t \in Tickers |->
          LET close == Col(data_frames[t], "Close")
          IN  SetCol(SetCol(data_frames[t], "RollingMean", rolling_mean(close, window)),
                     "RollingStd", rolling_std(close, window))]
    /\ Done("analyze_volatility", "", window, NoRows)
    /\ UNCHANGED <<err, normalized>>

visualize_All_in_one ==
    /\ Running
    /\ data_frames' = [t \in Tickers |->
          LET close == Col(data_frames[t], "Close")
          IN  SetCol(SetCol(SetCol(data_frames[t], "DailyReturn", pct_change(close)),
                            "RollingMean", rolling_mean(close, AllInOneWindow)),
                     "RollingStd", rolling_std(close, AllInOneWindow))]
    /\ Done("visualize_All_in_one", "", 0, NoRows)
    /\ UNCHANGED <<err, normalized>>

detect_outliers(threshold) ==
    /\ Running
    /\ \E z \in {Fn([t \in Tickers |-> zscore(Col(data_frames[t], "Close"))])} :
           /\ data_frames' = [t \in Tickers |-> SetCol(data_frames[t], "ZScore", z[t])]
           /\ Done("detect_outliers", "", threshold,
                   [t \in Tickers |->
                       {i \in 1..Len(z[t]) :
                           Gt(Abs(z[t][i]), R(threshold * threshold))}])
    /\ UNCHANGED <<err, normalized>>

WithDailyReturn(tbl) ==
    IF "DailyReturn" \notin tbl.cols
    THEN SetCol(tbl, "DailyReturn", Scaled(pct_change(Col(tbl, "Close")), Percent))
    ELSE tbl

analyze_unusual_returns(threshold) ==
    /\ Running
    /\ data_frames' = [t \in Tickers |-> WithDailyReturn(data_frames[t])]
    /\ Done("analyze_unusual_returns", "", threshold,
            [t \in Tickers |->
                Flagged(Col(WithDailyReturn(data_frames[t]), "DailyReturn"),
                        R(-threshold), R(threshold))])
    /\ UNCHANGED <<err, normalized>>

Windows == {2}

ZThresholds == {1, DefaultZThreshold}

ReturnThresholds == {DefaultReturnThreshold}

Next ==
    \/ \E m \in Methods : handle_missing_values(m)
    \/ normalize_data
    \/ calculate_daily_returns
    \/ \E w \in Windows : analyze_volatility(w)
    \/ visualize_All_in_one
    \/ \E th \in ZThresholds : detect_outliers(th)
    \/ \E th \in ReturnThresholds : analyze_unusual_returns(th)

Spec == Init /\ [][Next]_vars

SpecLong == InitLong /\ [][Next]_vars

(***************************************************************************)
(* Vocabulary of the properties                                            *)
(***************************************************************************)
Before(t, c) == Col(prev[t], c)

After(t, c) == Col(data_frames[t], c)

Valid(s) == {s[i] : i \in 1..Len(s)} \ {NaN}

Least(S) == CHOOSE v \in S : \A w \in S : ~Lt(w, v)

Greatest(S) == CHOOSE v \in S : \A w \in S : ~Lt(v, w)

MinMaxOf(v, lo, hi) == Div(Sub(v, lo), Sub(hi, lo))

PercentChange(close, i) ==
    Mul(Div(Sub(close[i], close[i - 1]), close[i - 1]), R(100))

WroteDailyReturn(t) ==
    \/ out.op \in {"calculate_daily_returns", "visualize_All_in_one"}
    \/ out.op = "analyze_unusual_returns" /\ "DailyReturn" \notin prev[t].cols

(***************************************************************************)
(* C1: raw-value analysis never runs on normalized data.  Whenever         *)
(* detect_outliers, calculate_daily_returns or analyze_unusual_returns     *)
(* computes a Z-score or a daily return for a ticker, the Close column of  *)
(* that ticker has not been overwritten by normalize_data.                 *)
(***************************************************************************)
C1_RawBeforeNormalization ==
    \A t \in Tickers :
        (/\ NRows(prev[t]) > 0
         /\ \/ out.op = "detect_outliers"
            \/ out.op = "calculate_daily_returns"
            \/ out.op = "analyze_unusual_returns" /\ "DailyReturn" \notin prev[t].cols)
        => ~normalized[t]

(***************************************************************************)
(* C2: handle_missing_values('drop') removes exactly the rows with a       *)
(* missing value in Close, Open, High, Low or Volume, and the k remaining  *)
(* rows carry the index labels 0..k-1.                                     *)
(***************************************************************************)
TrackedComplete(r) == \A c \in NumCols : ~IsNaN(r[c])

C2_DropTrackedContiguous ==
    (out.op = "handle_missing_values" /\ out.method = "drop") =>
        \A t \in Tickers :
            LET kept == SelectSeq(prev[t].rows, TrackedComplete)
            IN  /\ NRows(data_frames[t]) = Len(kept)
                /\ \A i \in 1..Len(kept) :
                       data_frames[t].rows[i] = [kept[i] EXCEPT !.idx = i - 1]

(***************************************************************************)
(* C3: normalize_data on a ticker with a constant column (max = min)       *)
(* yields 0 in every row of that column and raises no arithmetic error:    *)
(* the only failure of the call is the scaler's rejection of a table       *)
(* without rows; when the call completes, every column of every ticker is  *)
(* min-max scaled (missing values stay missing).                           *)
(***************************************************************************)
Constant(s) == Len(s) > 0 /\ IsFinite(s[1]) /\ \A i \in 1..Len(s) : s[i] = s[1]

Rescaled(old, new) ==
    /\ Len(new) = Len(old)
    /\ \A i \in 1..Len(old) :
           IF IsNaN(old[i]) THEN IsNaN(new[i])
           ELSE LET lo == Least(Valid(old))
                    hi == Greatest(Valid(old))
                IN  new[i] = IF lo = hi THEN Zero ELSE MinMaxOf(old[i], lo, hi)

C3_ConstantColumnYieldsZero ==
    out.op = "normalize_data" =>
        \A t \in Tickers : \A c \in NumCols :
            Constant(Before(t, c)) =>
                /\ err # "none" => \E u \in Tickers : NRows(prev[u]) = 0
                /\ err = "none" =>
                       /\ \A i \in 1..NRows(data_frames[t]) : After(t, c)[i] = Zero
                       /\ \A u \in Tickers : \A d \in NumCols :
                              Rescaled(Before(u, d), After(u, d))

C3_Witness ==
    /\ out.op = "normalize_data"
    /\ err = "none"
    /\ \E t \in Tickers :
           /\ NRows(prev[t]) = 3
           /\ \A i \in 1..3 : Before(t, "Open")[i] = R(5) /\ After(t, "Open")[i] = Zero
           /\ Before(t, "High") = <<R(50), R(60), R(50)>>
           /\ After(t, "High") = <<Zero, One, Zero>>

(***************************************************************************)
(* C4: after normalize_data, every column of Close, Open, High, Low,       *)
(* Volume that had no missing value and max > min holds                    *)
(* (v - min) / (max - min), min and max being those of the same ticker's   *)
(* same column before the call; the values lie in [0, 1], the minimum maps *)
(* to 0 and the maximum to 1.                                              *)
(***************************************************************************)
C4_MinMaxPerTickerColumn ==
    (out.op = "normalize_data" /\ err = "none") =>
        \A t \in Tickers : \A c \in NumCols :
            LET old == Before(t, c)
                new == After(t, c)
            IN  (Len(old) > 0 /\ ~HasNaN(old) /\ Least(Valid(old)) # Greatest(Valid(old))) =>
                    LET lo == Least(Valid(old))
                        hi == Greatest(Valid(old))
                    IN  /\ Len(new) = Len(old)
                        /\ \A i \in 1..Len(old) :
                               /\ new[i] = MinMaxOf(old[i], lo, hi)
                               /\ Le(Zero, new[i]) /\ Le(new[i], One)
                               /\ old[i] = lo => new[i] = Zero
                               /\ old[i] = hi => new[i] = One

C4_Witness ==
    /\ out.op = "normalize_data"
    /\ err = "none"
    /\ Before(TickerList[1], "Close") = <<R(10), R(20), R(30)>>
    /\ After(TickerList[1], "Close") = <<Zero, Frac(1, 2), One>>
    /\ Before(TickerList[2], "Close") = <<R(100), R(110), R(99)>>
    /\ After(TickerList[2], "Close") = <<Frac(1, 11), One, Zero>>

(***************************************************************************)
(* C5: handle_missing_values('interpolate') completes without error and    *)
(* replaces every missing value that has a valid value before and after it *)
(* in its column by the linear interpolation between the nearest valid     *)
(* neighbours.                                                             *)
(***************************************************************************)
Interior(s, i) ==
    /\ IsNaN(s[i])
    /\ \E a \in 1..(i - 1) : ~IsNaN(s[a])
    /\ \E b \in (i + 1)..Len(s) : ~IsNaN(s[b])

Interpolated(s, i) ==
    LET a == CHOOSE x \in 1..(i - 1) :
                 ~IsNaN(s[x]) /\ \A y \in (x + 1)..(i - 1) : IsNaN(s[y])
        b == CHOOSE x \in (i + 1)..Len(s) :
                 ~IsNaN(s[x]) /\ \A y \in (i + 1)..(x - 1) : IsNaN(s[y])
    IN  Add(s[a], Mul(Sub(s[b], s[a]), Frac(i - a, b - a)))

C5_InterpolateFillsInteriorGaps ==
    (out.op = "handle_missing_values" /\ out.method = "interpolate") =>
        /\ err = "none"
        /\ \A t \in Tickers : \A c \in NumCols :
               /\ Len(After(t, c)) = Len(Before(t, c))
               /\ \A i \in 1..Len(Before(t, c)) :
                      IF Interior(Before(t, c), i)
                      THEN After(t, c)[i] = Interpolated(Before(t, c), i)
                      ELSE After(t, c)[i] = Before(t, c)[i]

(***************************************************************************)
(* C6: analyze_unusual_returns(threshold) reports exactly the rows i >= 1  *)
(* whose percentage change of the current Close is above +threshold or     *)
(* below -threshold, whatever ran before (stated for Close columns without *)
(* missing values, where the percentage change is defined in every row     *)
(* after the first).                                                       *)
(***************************************************************************)
C6_UnusualFromCurrentClose ==
    out.op = "analyze_unusual_returns" =>
        \A t \in Tickers :
            LET close == After(t, "Close")
            IN  ~HasNaN(close) =>
                    out.rows[t] =
                        {i \in 2..Len(close) :
                            \/ Gt(PercentChange(close, i), R(out.num))
                            \/ Lt(PercentChange(close, i), R(-out.num))}

(***************************************************************************)
(* C7: every operation that writes Daily Return writes an undefined value  *)
(* in the first row and the percentage change of Close, in percent, in     *)
(* every later row (stated for Close columns without missing values).      *)
(***************************************************************************)
C7_DailyReturnInPercent ==
    \A t \in Tickers :
        LET close == After(t, "Close")
            ret   == After(t, "DailyReturn")
        IN  (WroteDailyReturn(t) /\ ~HasNaN(close)) =>
                /\ "DailyReturn" \in data_frames[t].cols
                /\ \A i \in 1..Len(close) :
                       ret[i] = IF i = 1 THEN NaN ELSE PercentChange(close, i)

(***************************************************************************)
(* C8: after handle_missing_values('ffill'), in every column of Close,     *)
(* Open, High, Low, Volume a row is missing only if it and all rows before *)
(* it were missing; every other formerly missing row holds the last valid  *)
(* value before it in the same ticker's same column; valid rows, the row   *)
(* count and the row labels are unchanged.                                 *)
(***************************************************************************)
C8_ForwardFill ==
    (out.op = "handle_missing_values" /\ out.method = "ffill") =>
        /\ err = "none"
        /\ \A t \in Tickers :
               /\ NRows(data_frames[t]) = NRows(prev[t])
               /\ \A i \in 1..NRows(prev[t]) :
                      /\ data_frames[t].rows[i].idx = prev[t].rows[i].idx
                      /\ data_frames[t].rows[i].Date = prev[t].rows[i].Date
                      /\ \A c \in NumCols :
                             LET old == Before(t, c)
                                 new == After(t, c)
                                 earlier == {j \in 1..i : ~IsNaN(old[j])}
                             IN  IF earlier = {} THEN IsNaN(new[i])
                                 ELSE new[i] = old[CHOOSE j \in earlier :
                                                       \A k \in earlier : k <= j]

C8_Witness ==
    /\ out.op = "handle_missing_values"
    /\ out.method = "ffill"
    /\ \E t \in Tickers :
           /\ Before(t, "Close") = <<NaN, R(20), NaN>>
           /\ After(t, "Close") = <<NaN, R(20), R(20)>>
           /\ Before(t, "Volume") = <<NaN, NaN, NaN>>
           /\ After(t, "Volume") = <<NaN, NaN, NaN>>
    /\ \E t \in Tickers : After(t, "Close") = <<R(100), R(110), R(99)>>

(***************************************************************************)
(* C9: after analyze_volatility(window) or visualize_All_in_one, Rolling   *)
(* Mean and Rolling Std of a row are defined only when the trailing window *)
(* of the configured size (default 30) ending at that row is full, and a   *)
(* defined Rolling Mean is the mean of Close over that window, all of      *)
(* whose rows are non-missing.                                             *)
(***************************************************************************)
ConfiguredWindow == IF out.op = "analyze_volatility" THEN out.num ELSE DefaultWindow

C9_RollingWindowConfigured ==
    out.op \in {"analyze_volatility", "visualize_All_in_one"} =>
        \A t \in Tickers :
            LET close == After(t, "Close")
                w     == ConfiguredWindow
            IN  \A i \in 1..Len(close) :
                    /\ i < w => /\ IsNaN(After(t, "RollingMean")[i])
                                /\ IsNaN(After(t, "RollingStd")[i])
                    /\ ~IsNaN(After(t, "RollingMean")[i]) =>
                           /\ i >= w
                           /\ ~HasNaN(SubSeq(close, i - w + 1, i))
                           /\ After(t, "RollingMean")[i]
                                  = Div(SumSeq(SubSeq(close, i - w + 1, i)), R(w))

(***************************************************************************)
(* C10: detect_outliers(threshold) reports exactly the rows with           *)
(* |close - mean| > threshold * std (mean and std over the whole Close     *)
(* series); for a series of 100s with a single 1000 and threshold 3 the    *)
(* reported set is exactly the row holding 1000.                           *)
(***************************************************************************)
SquaredDeviations(close) ==
    LET mean == Div(SumSeq(close), R(Len(close)))
    IN  Tuple([i \in 1..Len(close) |-> Mul(Sub(close[i], mean), Sub(close[i], mean))])

BeyondThreshold(close, thr) ==
    LET sq       == SquaredDeviations(close)
        variance == Div(SumSeq(sq), R(Len(close)))
        limit    == Mul(R(thr * thr), variance)
    IN  {i \in 1..Len(close) : Gt(sq[i], limit)}

SpikeRows(close) == {i \in 1..Len(close) : close[i] = R(1000)}

IsSpike(close) ==
    /\ Len(close) >= 2
    /\ Cardinality(SpikeRows(close)) = 1
    /\ \A i \in 1..Len(close) : close[i] \in {R(100), R(1000)}

C10_OutliersForEveryLength ==
    out.op = "detect_outliers" =>
        \A t \in Tickers :
            LET close == After(t, "Close")
            IN  /\ out.rows[t] = BeyondThreshold(close, out.num)
                /\ (out.num = 3 /\ IsSpike(close)) => out.rows[t] = SpikeRows(close)

MinSpikeLen == DefaultZThreshold * DefaultZThreshold + 2

C10_OutliersFromElevenRows ==
    out.op = "detect_outliers" =>
        \A t \in Tickers :
            LET close == After(t, "Close")
            IN  /\ out.rows[t] = BeyondThreshold(close, out.num)
                /\ (out.num = 3 /\ IsSpike(close)) =>
                       out.rows[t] = IF Len(close) >= MinSpikeLen
                                     THEN SpikeRows(close) ELSE {}

C10_Witness ==
    /\ out.op = "detect_outliers"
    /\ out.num = 3
    /\ \E t \in Tickers :
           /\ IsSpike(After(t, "Close"))
           /\ Len(After(t, "Close")) = MinSpikeLen
           /\ out.rows[t] = SpikeRows(After(t, "Close"))
           /\ out.rows[t] # {}

====
